---- MODULE Spec2Model ----
(***************************************************************************)
(* TaskFlow: the generic repository (BaseRepository), the in-memory        *)
(* storage provider (MemoryStorageProvider) and the event bus (EventBus).  *)
(*                                                                         *)
(* The TypeScript classes are placeholders: every method body but that of  *)
(* getCurrentTimestamp is a single `throw new Error('TODO: ...')`.  They   *)
(* are modelled as they are: a call changes no field of the object and     *)
(* ends with that Error.  The project                                      *)
(* outline (Project_Outline.md) carries the only implemented bodies of     *)
(* BaseRepository (add, findById), TaskRepository (validate) and EventBus  *)
(* (on, emit); they are modelled as separate objects.                      *)
(*                                                                         *)
(* Next to each placeholder object the model keeps the contract state: what *)
(* the calls made so far must have established according to the method's   *)
(* documented contract.  It is bookkeeping about the calls, not state of   *)
(* the program, and is used only to say which case of a property a call    *)
(* falls in.                                                               *)
(***************************************************************************)
EXTENDS Integers, Sequences, FiniteSets, TLC

VARIABLES
    \* BaseRepository (BaseRepository.ts)
    items,          \* protected items: Map<string, T>
    repoRet,        \* the last call on the repository and how it ended
    expectItems,    \* contract state: the entities the calls made so far must have stored
    repoNow,        \* the clock read by getCurrentTimestamp
    \* BaseRepository / TaskRepository of the outline (Project_Outline.md)
    outlineItems,   \* protected items: Map<string, T>
    outlineRet,     \* the last call on the outline repository and how it ended
    \* MemoryStorageProvider (StorageManager.ts)
    storage,        \* private storage: Map<string, {value, expires?}>
    timers,         \* private timers: Map<string, Timeout>
    storRet,        \* the last call on the provider and how it ended
    expectStorage,  \* contract state: the values the calls made so far must have stored
    storNow,        \* the clock
    \* EventBus (the placeholder class)
    listeners,      \* private listeners: Map<string, EventListener[]>
    eventHistory,   \* private eventHistory: BaseEvent[]
    invoked,        \* the listeners called by the last emission, in call order
    busRet,         \* the last call on the bus and how it ended
    expectListeners,\* contract state: the subscriptions the calls made so far must have registered
    expectHistory,  \* contract state: the events emitted since the last clearHistory
    \* EventBus of the outline (Project_Outline.md)
    outlineListeners,   \* private listeners: Map<string, Function[]>
    tokens,             \* the unsubscribe closures on() has returned, with the calls made of each
    outlineInvoked,     \* the callbacks called by the last emit, in call order
    outlineLogged,      \* the callbacks whose error the last emit caught and logged
    outlineBusRet,      \* the last call on the outline bus and how it ended
    \* TaskFlowApp (UserRepository.ts)
    taskService,    \* private taskService: TaskService | null
    userService,    \* private userService: UserService | null
    isInitialized,  \* private isInitialized: boolean
    config,         \* private config: AppConfig
    appRet,         \* the last call on the application and how it ended
    starting,       \* the applications of the quickStart calls that have not returned yet
    \* StorageManager (StorageManager.ts)
    managers,       \* the StorageManager instances that constructor calls have produced
    smRet,          \* the last constructor call and how it ended
    \* The run
    budget          \* the calls a bounded run may still make

repoVars == <<items, repoRet, expectItems, repoNow>>
outlineRepoVars == <<outlineItems, outlineRet>>
storVars == <<storage, timers, storRet, expectStorage, storNow>>
busVars == <<listeners, eventHistory, invoked, busRet, expectListeners, expectHistory>>
outlineBusVars == <<outlineListeners, tokens, outlineInvoked, outlineLogged, outlineBusRet>>
appVars == <<taskService, userService, isInitialized, config, appRet, starting>>
smVars == <<managers, smRet>>
vars == <<repoVars, outlineRepoVars, storVars, busVars, outlineBusVars, appVars, smVars, budget>>

\* What a step of one object leaves alone: the other objects.  The outline's
\* objects take no part in the bounded runs and leave the budget alone too.
notRepo == <<outlineRepoVars, storVars, busVars, outlineBusVars, appVars, smVars>>
notOutlineRepo == <<repoVars, storVars, busVars, outlineBusVars, appVars, smVars, budget>>
notStor == <<repoVars, outlineRepoVars, busVars, outlineBusVars, appVars, smVars>>
notBus == <<repoVars, outlineRepoVars, storVars, outlineBusVars, appVars, smVars>>
notOutlineBus == <<repoVars, outlineRepoVars, storVars, busVars, appVars, smVars, budget>>
notApp == <<repoVars, outlineRepoVars, storVars, busVars, outlineBusVars, smVars>>
notSm == <<repoVars, outlineRepoVars, storVars, busVars, outlineBusVars, appVars>>

----------------------------------------------------------------------------
\* Bounds of the model
MaxIds == 3           \* entity ids are 1..MaxIds
MaxTime == 2          \* the clock runs 0..MaxTime
MaxPage == 3          \* page numbers and page sizes asked of findAll

\* TaskRepository.validate of the outline: title.length <= 100
MaxTitleLen == 100

Ids == 1..MaxIds
\* A task is represented by the length of its title: the only field validate reads.
TitleLens == {0, 1, MaxTitleLen, MaxTitleLen + 1}
Times == 0..MaxTime

\* The fields of an entity, and the sortBy values asked of findAll: a field the
\* entities have and one they do not have.
EntityFields == {"id", "title", "createdAt", "updatedAt"}
SortKeys == {"title", "rank"}
SortOrders == {"asc", "desc"}

\* How a call ends
Ok == "ok"
TodoError == "Error: TODO"                \* new Error('TODO: Implement ...')
ValidationError == "ValidationError"
NotFoundError == "NotFoundError"

\* The runs of the objects together are bounded: they make MaxCalls steps at
\* most.  The runs of one object are as long as they like.
MaxCalls == 2         \* steps of a bounded run
Unbounded == [bounded |-> FALSE]
CallMade ==
    IF ~budget.bounded
    THEN budget' = budget
    ELSE /\ budget.left > 0
         /\ budget' = [budget EXCEPT !.left = @ - 1]

\* TaskRepository.validate (outline): title.length > 0 && title.length <= 100
validate(title) == title > 0 /\ title <= MaxTitleLen

----------------------------------------------------------------------------
\* BaseRepository: the placeholder class.

\* Contract of create: a valid candidate is stored under an id no entity has,
\* with createdAt = updatedAt = now; an invalid one leaves the store as it was.
ExpectCreate(title) ==
    IF validate(title) /\ DOMAIN expectItems # Ids
    THEN \E id \in Ids \ DOMAIN expectItems :
            expectItems' = [k \in DOMAIN expectItems \cup {id} |->
                IF k = id
                THEN [title |-> title, createdAt |-> repoNow, updatedAt |-> repoNow]
                ELSE expectItems[k]]
    ELSE expectItems' = expectItems

\* Contract of update: the merged candidate of a live entity, when valid,
\* replaces it with updatedAt = now; anything else leaves the store as it was.
ExpectUpdate(id, title) ==
    IF id \in DOMAIN expectItems /\ validate(title)
    THEN expectItems' = [expectItems EXCEPT ![id].title = title,
                                            ![id].updatedAt = repoNow]
    ELSE expectItems' = expectItems

\* Contract of delete: the entity is gone.
ExpectDelete(id) ==
    expectItems' = [k \in DOMAIN expectItems \ {id} |-> expectItems[k]]

\* A create that stores its candidate (what the placeholder does not do)
CreateStores(title) ==
    /\ items' = [k \in DOMAIN items \cup {1} |-> [title |-> title]]
    /\ repoRet' = [op |-> "create", title |-> title, hooks |-> << >>, outcome |-> Ok]
    /\ ExpectCreate(title)
    /\ UNCHANGED repoNow
    /\ UNCHANGED notRepo
    /\ CallMade

\* async create(data): throw new Error(`TODO: Implement create method ...`)
\* hooks: the calls of this.sanitize / this.validate the method made, in order.
Create(title) ==
    /\ repoRet' = [op |-> "create", title |-> title, hooks |-> << >>,
                   outcome |-> TodoError]
    /\ ExpectCreate(title)
    /\ UNCHANGED <<items, repoNow>>
    /\ UNCHANGED notRepo
    /\ CallMade

\* async findById(id): throw new Error(`TODO: Implement findById method ...`)
FindById(id) ==
    /\ repoRet' = [op |-> "findById", id |-> id, outcome |-> TodoError]
    /\ UNCHANGED <<items, expectItems, repoNow>>
    /\ UNCHANGED notRepo
    /\ CallMade

\* async findAll(options): throw new Error(`TODO: Implement findAll method ...`)
FindAll(page, size, sortBy, sortOrder) ==
    /\ repoRet' = [op |-> "findAll", page |-> page, size |-> size, sortBy |-> sortBy,
                   sortOrder |-> sortOrder, outcome |-> TodoError]
    /\ UNCHANGED <<items, expectItems, repoNow>>
    /\ UNCHANGED notRepo
    /\ CallMade

\* async update(id, updates): throw new Error(`TODO: Implement update method ...`)
Update(id, title) ==
    /\ repoRet' = [op |-> "update", id |-> id, title |-> title, hooks |-> << >>,
                   outcome |-> TodoError]
    /\ ExpectUpdate(id, title)
    /\ UNCHANGED <<items, repoNow>>
    /\ UNCHANGED notRepo
    /\ CallMade

\* async delete(id): throw new Error(`TODO: Implement delete method ...`)
Delete(id) ==
    /\ repoRet' = [op |-> "delete", id |-> id, outcome |-> TodoError]
    /\ ExpectDelete(id)
    /\ UNCHANGED <<items, repoNow>>
    /\ UNCHANGED notRepo
    /\ CallMade

\* async exists(id): throw new Error(`TODO: Implement exists method ...`)
Exists(id) ==
    /\ repoRet' = [op |-> "exists", id |-> id, outcome |-> TodoError]
    /\ UNCHANGED <<items, expectItems, repoNow>>
    /\ UNCHANGED notRepo
    /\ CallMade

\* async count(): throw new Error(`TODO: Implement count method ...`)
Count ==
    /\ repoRet' = [op |-> "count", outcome |-> TodoError]
    /\ UNCHANGED <<items, expectItems, repoNow>>
    /\ UNCHANGED notRepo
    /\ CallMade

\* async clear(): throw new Error(`TODO: Implement clear method ...`)
Clear ==
    /\ repoRet' = [op |-> "clear", outcome |-> TodoError]
    /\ expectItems' = << >>
    /\ UNCHANGED <<items, repoNow>>
    /\ UNCHANGED notRepo
    /\ CallMade

\* protected generateId(): throw new Error('TODO: Implement ID generation')
GenerateId ==
    /\ repoRet' = [op |-> "generateId", outcome |-> TodoError]
    /\ UNCHANGED <<items, expectItems, repoNow>>
    /\ UNCHANGED notRepo
    /\ CallMade

\* protected getCurrentTimestamp(): return new Date();
\* The one method of the class with a body: it returns the time of the clock.
GetCurrentTimestamp ==
    /\ repoRet' = [op |-> "getCurrentTimestamp", outcome |-> Ok, value |-> repoNow]
    /\ UNCHANGED <<items, expectItems, repoNow>>
    /\ UNCHANGED notRepo
    /\ CallMade

\* protected async findWhere(predicate): throw new Error(`TODO: Implement findWhere method ...`)
FindWhere ==
    /\ repoRet' = [op |-> "findWhere", outcome |-> TodoError]
    /\ UNCHANGED <<items, expectItems, repoNow>>
    /\ UNCHANGED notRepo
    /\ CallMade

\* protected sortItems(items, sortBy, sortOrder): throw new Error('TODO: Implement sorting logic')
SortItems(sortBy, sortOrder) ==
    /\ repoRet' = [op |-> "sortItems", sortBy |-> sortBy, sortOrder |-> sortOrder,
                   outcome |-> TodoError]
    /\ UNCHANGED <<items, expectItems, repoNow>>
    /\ UNCHANGED notRepo
    /\ CallMade

\* protected paginateItems(items, options): throw new Error('TODO: Implement pagination logic')
PaginateItems(page) ==
    /\ repoRet' = [op |-> "paginateItems", page |-> page, outcome |-> TodoError]
    /\ UNCHANGED <<items, expectItems, repoNow>>
    /\ UNCHANGED notRepo
    /\ CallMade

\* TaskRepository: async validate(task): throw new Error('TODO: Implement task validation logic')
Validate(title) ==
    /\ repoRet' = [op |-> "validate", title |-> title, outcome |-> TodoError]
    /\ UNCHANGED <<items, expectItems, repoNow>>
    /\ UNCHANGED notRepo
    /\ CallMade

\* TaskRepository: async sanitize(taskData): throw new Error('TODO: Implement task sanitization logic')
Sanitize(title) ==
    /\ repoRet' = [op |-> "sanitize", title |-> title, outcome |-> TodoError]
    /\ UNCHANGED <<items, expectItems, repoNow>>
    /\ UNCHANGED notRepo
    /\ CallMade

\* Time passes between calls: the clock that new Date() reads goes on.
RepoTick ==
    /\ repoNow < MaxTime
    /\ repoNow' = repoNow + 1
    /\ UNCHANGED <<items, repoRet, expectItems>>
    /\ UNCHANGED notRepo
    /\ CallMade

RepoInit ==
    /\ items = << >>
    /\ repoRet = [op |-> "new", outcome |-> Ok]
    /\ expectItems = << >>
    /\ repoNow = 0

RepoNext ==
    \/ \E t \in TitleLens : Create(t)
    \/ \E id \in Ids : FindById(id)
    \/ \E p \in 1..MaxPage, k \in 1..MaxPage, f \in SortKeys, o \in SortOrders :
          FindAll(p, k, f, o)
    \/ \E id \in Ids, t \in TitleLens : Update(id, t)
    \/ \E id \in Ids : Delete(id)
    \/ \E id \in Ids : Exists(id)
    \/ Count
    \/ Clear
    \/ GenerateId
    \/ GetCurrentTimestamp
    \/ FindWhere
    \/ \E f \in SortKeys, o \in SortOrders : SortItems(f, o)
    \/ \E p \in 1..MaxPage : PaginateItems(p)
    \/ \E t \in {0, 1} : Validate(t)
    \/ \E t \in {0, 1} : Sanitize(t)
    \/ RepoTick

----------------------------------------------------------------------------
\* BaseRepository of the outline (Project_Outline.md): add and findById.
\* An item is {id, title}; the caller supplies the id.

\* findById's null
Null == "null"

\* this.items.set(item.id, item)
MapSet(map, key, value) ==
    [k \in DOMAIN map \cup {key} |-> IF k = key THEN value ELSE map[k]]

\* async add(item): if (!this.validate(item)) throw new ValidationError(...);
\*                   this.items.set(item.id, item); return item;
Add(id, title) ==
    IF ~validate(title)
    THEN /\ outlineRet' = [op |-> "add", id |-> id, title |-> title, outcome |-> ValidationError]
         /\ UNCHANGED outlineItems
         /\ UNCHANGED notOutlineRepo
    ELSE /\ outlineItems' = MapSet(outlineItems, id, [id |-> id, title |-> title])
         /\ outlineRet' = [op |-> "add", id |-> id, title |-> title, outcome |-> Ok,
                          value |-> [id |-> id, title |-> title]]
         /\ UNCHANGED notOutlineRepo

\* async findById(id): return this.items.get(id) || null;
OutlineFindById(id) ==
    /\ outlineRet' = [op |-> "findById", id |-> id, outcome |-> Ok,
                      value |-> IF id \in DOMAIN outlineItems
                                THEN outlineItems[id] ELSE Null]
    /\ UNCHANGED outlineItems
    /\ UNCHANGED notOutlineRepo

\* The caller changes the title of the object the last add or findById returned.
\* add stores the caller's object itself (this.items.set(item.id, item); return
\* item) and findById returns the stored object itself (this.items.get(id)): the
\* returned reference and the stored entity are one object, so the assignment
\* is an assignment to the stored entity.
Mutate(title) ==
    /\ outlineRet.op \in {"add", "findById"}
    /\ outlineRet.outcome = Ok
    /\ outlineRet.id \in DOMAIN outlineItems
    /\ outlineItems' = [outlineItems EXCEPT ![outlineRet.id].title = title]
    /\ outlineRet' = [op |-> "mutate", id |-> outlineRet.id, title |-> title,
                      outcome |-> Ok]
    /\ UNCHANGED notOutlineRepo

OutlineRepoInit ==
    /\ outlineItems = << >>
    /\ outlineRet = [op |-> "new", outcome |-> Ok]

OutlineRepoNext ==
    \/ \E id \in Ids, t \in TitleLens : Add(id, t)
    \/ \E id \in Ids : OutlineFindById(id)
    \/ \E t \in TitleLens : Mutate(t)

----------------------------------------------------------------------------
\* MemoryStorageProvider: the placeholder class.

MaxKeys == 2          \* storage keys are 1..MaxKeys
MaxTtl == 2           \* ttl values asked of set are 1..MaxTtl
Keys == 1..MaxKeys
Values == {1, 2}
NoTtl == 0            \* set without options.ttl
NoExpiry == -1

\* Contract of set: the value is stored; with a ttl it expires at now + ttl.
\* stale: the expiry the value this set replaced had, the time at which a timer
\* armed for the replaced value would fire.
ExpectSet(key, value, ttl) ==
    expectStorage' = MapSet(expectStorage, key,
        [value |-> value,
         expires |-> IF ttl = NoTtl THEN NoExpiry ELSE storNow + ttl,
         stale |-> IF key \in DOMAIN expectStorage
                   THEN expectStorage[key].expires ELSE NoExpiry])

\* An entry of the contract state is live at time t when it has not expired.
LiveAt(key, t) ==
    /\ key \in DOMAIN expectStorage
    /\ \/ expectStorage[key].expires = NoExpiry
       \/ t < expectStorage[key].expires

ExpiredAt(key, t) ==
    /\ key \in DOMAIN expectStorage
    /\ expectStorage[key].expires # NoExpiry
    /\ t >= expectStorage[key].expires

\* async get(key): throw new Error('TODO: Implement memory storage get')
Get(key) ==
    /\ storRet' = [op |-> "get", key |-> key, at |-> storNow, outcome |-> TodoError]
    /\ UNCHANGED <<storage, timers, expectStorage, storNow>>
    /\ UNCHANGED notStor
    /\ CallMade

\* async set(key, value, options): throw new Error('TODO: Implement memory storage set')
Set(key, value, ttl) ==
    /\ storRet' = [op |-> "set", key |-> key, value |-> value, ttl |-> ttl, at |-> storNow,
                  outcome |-> TodoError]
    /\ ExpectSet(key, value, ttl)
    /\ UNCHANGED <<storage, timers, storNow>>
    /\ UNCHANGED notStor
    /\ CallMade

\* async delete(key): throw new Error('TODO: Implement memory storage delete')
StorDelete(key) ==
    /\ storRet' = [op |-> "delete", key |-> key, at |-> storNow, outcome |-> TodoError]
    /\ expectStorage' = [k \in DOMAIN expectStorage \ {key} |-> expectStorage[k]]
    /\ UNCHANGED <<storage, timers, storNow>>
    /\ UNCHANGED notStor
    /\ CallMade

\* async exists(key): throw new Error('TODO: Implement memory storage exists')
StorExists(key) ==
    /\ storRet' = [op |-> "exists", key |-> key, at |-> storNow, outcome |-> TodoError]
    /\ UNCHANGED <<storage, timers, expectStorage, storNow>>
    /\ UNCHANGED notStor
    /\ CallMade

\* async clear(): throw new Error('TODO: Implement memory storage clear')
StorClear ==
    /\ storRet' = [op |-> "clear", at |-> storNow, outcome |-> TodoError]
    /\ expectStorage' = << >>
    /\ UNCHANGED <<storage, timers, storNow>>
    /\ UNCHANGED notStor
    /\ CallMade

\* async keys(pattern): throw new Error('TODO: Implement memory storage keys')
StorKeys ==
    /\ storRet' = [op |-> "keys", at |-> storNow, outcome |-> TodoError]
    /\ UNCHANGED <<storage, timers, expectStorage, storNow>>
    /\ UNCHANGED notStor
    /\ CallMade

\* async size(): throw new Error('TODO: Implement memory storage size')
StorSize ==
    /\ storRet' = [op |-> "size", at |-> storNow, outcome |-> TodoError]
    /\ UNCHANGED <<storage, timers, expectStorage, storNow>>
    /\ UNCHANGED notStor
    /\ CallMade

\* private cleanupExpired(): throw new Error('TODO: Implement expired cleanup')
CleanupExpired ==
    /\ storRet' = [op |-> "cleanupExpired", at |-> storNow, outcome |-> TodoError]
    /\ UNCHANGED <<storage, timers, expectStorage, storNow>>
    /\ UNCHANGED notStor
    /\ CallMade

\* private setExpirationTimer(key, ttl): throw new Error('TODO: Implement expiration timer')
SetExpirationTimer(key, ttl) ==
    /\ storRet' = [op |-> "setExpirationTimer", key |-> key, ttl |-> ttl,
                   outcome |-> TodoError]
    /\ UNCHANGED <<storage, timers, expectStorage, storNow>>
    /\ UNCHANGED notStor
    /\ CallMade

\* Time passes between calls.  No timer is ever armed (setExpirationTimer arms
\* none), so the passing of time runs no callback.
StorTick ==
    /\ storNow < MaxTime + MaxTtl
    /\ storNow' = storNow + 1
    /\ UNCHANGED <<storage, timers, storRet, expectStorage>>
    /\ UNCHANGED notStor
    /\ CallMade

StorInit ==
    /\ storage = << >>
    /\ timers = << >>
    /\ storNow = 0
    /\ storRet = [op |-> "new", outcome |-> Ok]
    /\ expectStorage = << >>

StorNext ==
    \/ \E k \in Keys : Get(k)
    \/ \E k \in Keys, v \in Values, t \in {NoTtl} \cup (1..MaxTtl) : Set(k, v, t)
    \/ \E k \in Keys : StorDelete(k)
    \/ \E k \in Keys : StorExists(k)
    \/ StorClear
    \/ StorKeys
    \/ StorSize
    \/ CleanupExpired
    \/ \E k \in Keys, t \in 1..MaxTtl : SetExpirationTimer(k, t)
    \/ StorTick

----------------------------------------------------------------------------
\* EventBus: the placeholder class.

MaxSubs == 3          \* subscribe / on calls made in one run
MaxEmits == 3         \* events emitted between two clearHistory calls
MaxTimeout == 2       \* timeouts asked of waitForEvent are 1..MaxTimeout

Wildcard == "*"
EventTypes == {"task:created", "task:updated"}     \* the types of emitted events
SubTypes == EventTypes \cup {Wildcard}             \* the types subscribed to
\* Listener functions, each with a fixed behaviour: "B" throws when called.
Listeners == {"A", "B", "C"}
Throws(l) == l = "B"
ListenerError == "Error: listener"                 \* what a throwing listener throws
AllTypes == "undefined"                            \* getEventHistory without eventType
NoLimit == 0                                       \* getEventHistory without limit
TimeoutError == "TimeoutError"                     \* what an expired waitForEvent fails with
\* The batches handed to emitBatch: two events
Batches == {<<a, b>> : a \in EventTypes, b \in EventTypes}

\* private maxHistorySize: number = 1000
maxHistorySize == 1000

\* subscribe(eventType, listener): throw new Error('TODO: Implement subscribe method')
Subscribe(type, l) ==
    /\ Len(expectListeners) < MaxSubs
    /\ busRet' = [op |-> "subscribe", type |-> type, listener |-> l, outcome |-> TodoError]
    /\ expectListeners' = Append(expectListeners, [type |-> type, listener |-> l])
    /\ UNCHANGED <<listeners, eventHistory, invoked, expectHistory>>
    /\ UNCHANGED notBus
    /\ CallMade

\* async emit(event): throw new Error('TODO: Implement emit method')
Emit(type) ==
    /\ Len(expectHistory) < MaxEmits
    /\ busRet' = [op |-> "emit", type |-> type, outcome |-> TodoError]
    /\ invoked' = << >>
    /\ expectHistory' = Append(expectHistory, type)
    /\ UNCHANGED <<listeners, eventHistory, expectListeners>>
    /\ UNCHANGED notBus
    /\ CallMade

\* emitSync(event): throw new Error('TODO: Implement emitSync method')
EmitSync(type) ==
    /\ Len(expectHistory) < MaxEmits
    /\ busRet' = [op |-> "emitSync", type |-> type, outcome |-> TodoError]
    /\ invoked' = << >>
    /\ expectHistory' = Append(expectHistory, type)
    /\ UNCHANGED <<listeners, eventHistory, expectListeners>>
    /\ UNCHANGED notBus
    /\ CallMade

\* unsubscribeAll(eventType): throw new Error('TODO: Implement unsubscribeAll method')
UnsubscribeAll(type) ==
    /\ busRet' = [op |-> "unsubscribeAll", type |-> type, outcome |-> TodoError]
    /\ expectListeners' = SelectSeq(expectListeners, LAMBDA s : s.type # type)
    /\ UNCHANGED <<listeners, eventHistory, invoked, expectHistory>>
    /\ UNCHANGED notBus
    /\ CallMade

\* getEventHistory(eventType, limit): throw new Error('TODO: Implement getEventHistory method')
\* type AllTypes: eventType omitted; limit NoLimit: limit omitted.
GetEventHistory(type, limit) ==
    /\ busRet' = [op |-> "getEventHistory", type |-> type, limit |-> limit,
                  outcome |-> TodoError]
    /\ UNCHANGED <<listeners, eventHistory, invoked, expectListeners, expectHistory>>
    /\ UNCHANGED notBus
    /\ CallMade

\* clearHistory(): throw new Error('TODO: Implement clearHistory method')
ClearHistory ==
    /\ busRet' = [op |-> "clearHistory", outcome |-> TodoError]
    /\ expectHistory' = << >>
    /\ UNCHANGED <<listeners, eventHistory, invoked, expectListeners>>
    /\ UNCHANGED notBus
    /\ CallMade

\* getListenerStats(): throw new Error('TODO: Implement getListenerStats method')
GetListenerStats ==
    /\ busRet' = [op |-> "getListenerStats", outcome |-> TodoError]
    /\ UNCHANGED <<listeners, eventHistory, invoked, expectListeners, expectHistory>>
    /\ UNCHANGED notBus
    /\ CallMade

\* waitForEvent(eventType, timeout): throw new Error('TODO: Implement waitForEvent method')
\* The method is not async: the Error is thrown by the call itself, before any
\* time has passed (elapsed = 0) and without a Promise being returned.
WaitForEvent(type, timeout) ==
    /\ busRet' = [op |-> "waitForEvent", type |-> type, timeout |-> timeout,
                  elapsed |-> 0, outcome |-> TodoError]
    /\ UNCHANGED <<listeners, eventHistory, invoked, expectListeners, expectHistory>>
    /\ UNCHANGED notBus
    /\ CallMade

\* async emitBatch(events): throw new Error('TODO: Implement emitBatch method')
EmitBatch(events) ==
    /\ Len(expectHistory) + Len(events) <= MaxEmits
    /\ busRet' = [op |-> "emitBatch", events |-> events, outcome |-> TodoError]
    /\ invoked' = << >>
    /\ expectHistory' = expectHistory \o events
    /\ UNCHANGED <<listeners, eventHistory, expectListeners>>
    /\ UNCHANGED notBus
    /\ CallMade

\* private validateEvent(event): throw new Error('TODO: Implement validateEvent')
ValidateEvent(type) ==
    /\ busRet' = [op |-> "validateEvent", type |-> type, outcome |-> TodoError]
    /\ UNCHANGED <<listeners, eventHistory, invoked, expectListeners, expectHistory>>
    /\ UNCHANGED notBus
    /\ CallMade

\* private trimHistory(): throw new Error('TODO: Implement trimHistory')
TrimHistory ==
    /\ busRet' = [op |-> "trimHistory", outcome |-> TodoError]
    /\ UNCHANGED <<listeners, eventHistory, invoked, expectListeners, expectHistory>>
    /\ UNCHANGED notBus
    /\ CallMade

\* private handleListenerError(error, eventType, listener):
\*   throw new Error('TODO: Implement handleListenerError')
HandleListenerError(type, l) ==
    /\ busRet' = [op |-> "handleListenerError", type |-> type, listener |-> l,
                  outcome |-> TodoError]
    /\ UNCHANGED <<listeners, eventHistory, invoked, expectListeners, expectHistory>>
    /\ UNCHANGED notBus
    /\ CallMade

BusInit ==
    /\ listeners = << >>
    /\ eventHistory = << >>
    /\ invoked = << >>
    /\ busRet = [op |-> "new", outcome |-> Ok]
    /\ expectListeners = << >>
    /\ expectHistory = << >>

BusNext ==
    \/ \E t \in SubTypes, l \in Listeners : Subscribe(t, l)
    \/ \E t \in EventTypes : Emit(t)
    \/ \E t \in EventTypes : EmitSync(t)
    \/ \E t \in SubTypes : UnsubscribeAll(t)
    \/ \E t \in EventTypes \cup {AllTypes}, n \in {NoLimit} \cup (1..MaxEmits) :
          GetEventHistory(t, n)
    \/ ClearHistory
    \/ GetListenerStats
    \/ \E t \in EventTypes, ms \in 1..MaxTimeout : WaitForEvent(t, ms)
    \/ \E b \in Batches : EmitBatch(b)
    \/ \E t \in EventTypes : ValidateEvent(t)
    \/ TrimHistory
    \/ \E t \in EventTypes : HandleListenerError(t, "B")

----------------------------------------------------------------------------
\* EventBus of the outline (Project_Outline.md): on and emit.

MaxTokenCalls == 2    \* calls made of one unsubscribe closure

\* callbacks.indexOf(callback): the first position of the callback, 0 when absent
\* (positions are 1-based here; indexOf's -1 is 0).
IndexOf(callbacks, callback) ==
    IF \E i \in 1..Len(callbacks) : callbacks[i] = callback
    THEN CHOOSE i \in 1..Len(callbacks) :
            /\ callbacks[i] = callback
            /\ \A j \in 1..(i - 1) : callbacks[j] # callback
    ELSE 0

\* callbacks.splice(index, 1)
Splice(callbacks, index) ==
    SubSeq(callbacks, 1, index - 1) \o SubSeq(callbacks, index + 1, Len(callbacks))

\* this.listeners.get(event) || []
CallbacksOf(event) ==
    IF event \in DOMAIN outlineListeners THEN outlineListeners[event] ELSE << >>

\* on(event, callback): if (!this.listeners.has(event)) this.listeners.set(event, []);
\*   this.listeners.get(event).push(callback); return () => { ... };
On(event, callback) ==
    /\ Len(tokens) < MaxSubs
    /\ outlineListeners' =
          MapSet(outlineListeners, event, Append(CallbacksOf(event), callback))
    /\ tokens' = Append(tokens, [event |-> event, callback |-> callback, calls |-> 0])
    /\ outlineBusRet' = [op |-> "on", event |-> event, callback |-> callback,
                         token |-> Len(tokens) + 1]
    /\ UNCHANGED <<outlineInvoked, outlineLogged>>
    /\ UNCHANGED notOutlineBus

\* The closure on() returns:
\*   const callbacks = this.listeners.get(event) || [];
\*   const index = callbacks.indexOf(callback);
\*   if (index > -1) callbacks.splice(index, 1);
Unsubscribe(i) ==
    /\ i \in 1..Len(tokens)
    /\ tokens[i].calls < MaxTokenCalls
    /\ LET event == tokens[i].event
           callbacks == CallbacksOf(event)
           index == IndexOf(callbacks, tokens[i].callback)
       IN  /\ outlineListeners' =
                 IF index > 0
                 THEN [outlineListeners EXCEPT ![event] = Splice(callbacks, index)]
                 ELSE outlineListeners
           /\ outlineBusRet' = [op |-> "unsubscribe", token |-> i]
    /\ tokens' = [tokens EXCEPT ![i].calls = @ + 1]
    /\ UNCHANGED <<outlineInvoked, outlineLogged>>
    /\ UNCHANGED notOutlineBus

\* What the listener functions do when called: "B" throws, and "C" invokes the
\* unsubscribe closure it was first registered with
\* (const off = bus.on(event, () => off())).
Unsubscribes(l) == l = "C"
OwnToken(callback) ==
    CHOOSE i \in 1..Len(tokens) :
        /\ tokens[i].callback = callback
        /\ \A j \in 1..(i - 1) : tokens[j].callback # callback

\* The closure of token i run on the listeners map of a delivery in progress
CallToken(i, acc) ==
    LET event == tokens[i].event
        callbacks == IF event \in DOMAIN acc.listeners
                     THEN acc.listeners[event] ELSE << >>
        index == IndexOf(callbacks, tokens[i].callback)
    IN  [acc EXCEPT !.listeners = IF index > 0
                                  THEN [@ EXCEPT ![event] = Splice(callbacks, index)]
                                  ELSE @,
                    !.calls = @ + 1]

\* callbacks.forEach(callback => { try { callback(data) } catch { console.error } }):
\* forEach reads the length once (len) and visits index i only while the array
\* still has it; it reads the element at the time of the visit, so a splice made
\* by a callback shifts the elements that have not been visited yet.
RECURSIVE ForEach(_, _, _, _)
ForEach(event, i, len, acc) ==
    LET callbacks == IF event \in DOMAIN acc.listeners
                     THEN acc.listeners[event] ELSE << >>
    IN  IF i > len \/ i > Len(callbacks)
        THEN acc
        ELSE LET callback == callbacks[i]
                 called == [acc EXCEPT
                              !.invoked = Append(@, callback),
                              !.logged = IF Throws(callback)
                                         THEN Append(@, callback) ELSE @]
             IN  ForEach(event, i + 1, len,
                         IF Unsubscribes(callback)
                         THEN CallToken(OwnToken(callback), called)
                         ELSE called)

\* emit(event, data): const callbacks = this.listeners.get(event) || [];
\*                    callbacks.forEach(...)
OutlineEmit(event) ==
    LET done == ForEach(event, 1, Len(CallbacksOf(event)),
                        [listeners |-> outlineListeners, calls |-> 0,
                         invoked |-> << >>, logged |-> << >>])
    IN  /\ done.calls > 0 =>
              tokens[OwnToken("C")].calls + done.calls <= MaxTokenCalls
        /\ outlineListeners' = done.listeners
        /\ tokens' = IF done.calls > 0
                     THEN [tokens EXCEPT ![OwnToken("C")].calls = @ + done.calls]
                     ELSE tokens
        /\ outlineInvoked' = done.invoked
        /\ outlineLogged' = done.logged
        /\ outlineBusRet' = [op |-> "emit", event |-> event]
        /\ UNCHANGED notOutlineBus

OutlineBusInit ==
    /\ outlineListeners = << >>
    /\ tokens = << >>
    /\ outlineInvoked = << >>
    /\ outlineLogged = << >>
    /\ outlineBusRet = [op |-> "new"]

OutlineBusNext ==
    \/ \E e \in EventTypes, c \in Listeners : On(e, c)
    \/ \E i \in 1..MaxSubs : Unsubscribe(i)
    \/ \E e \in EventTypes : OutlineEmit(e)

----------------------------------------------------------------------------
\* TaskFlowApp (UserRepository.ts).  Its constructor, initialize, shutdown,
\* getConfig and mergeConfig have bodies; the other methods are placeholders.
\* The fields eventBus and storageManager are null and never assigned.

\* const defaultConfig: AppConfig = { ... }
defaultConfig ==
    [environment |-> "development",
     logging     |-> [level |-> "info", enabled |-> TRUE],
     storage     |-> [provider |-> "memory", prefix |-> "taskflow_",
                      defaultTTL |-> 3600000],
     events      |-> [maxHistorySize |-> 1000, enableDebugMode |-> FALSE],
     features    |-> [enableAnalytics |-> TRUE, enableAuditLog |-> TRUE,
                      maxTasksPerUser |-> 100]]

\* The sections of AppConfig: the keys whose value is an object
Sections == {"logging", "storage", "events", "features"}

\* The user configurations handed to the constructor: none, the two of the
\* usage examples of the file, and one with a complete section.
ConfigNames == {"none", "example2", "example4", "events"}
UserConfig(name) ==
    CASE name = "none" -> << >>
      [] name = "example2" ->
            [environment |-> "production",
             storage     |-> [provider |-> "localStorage"],
             features    |-> [maxTasksPerUser |-> 50]]
      [] name = "example4" ->
            [environment |-> "development",
             logging     |-> [level |-> "debug", enabled |-> TRUE]]
      [] name = "events" ->
            [events |-> [maxHistorySize |-> 10, enableDebugMode |-> TRUE]]

\* private mergeConfig(userConfig): return { ...defaultConfig, ...userConfig };
\* a key of userConfig replaces the whole value of that key of defaultConfig.
mergeConfig(userConfig) ==
    [k \in DOMAIN defaultConfig \cup DOMAIN userConfig |->
        IF k \in DOMAIN userConfig THEN userConfig[k] ELSE defaultConfig[k]]

\* new TaskFlowApp(config) / createTaskFlowApp(config): the field initializers,
\* then this.config = this.mergeConfig(config).  The new object takes the place
\* of the one the caller held.
NewApp(name) ==
    /\ taskService' = Null
    /\ userService' = Null
    /\ isInitialized' = FALSE
    /\ config' = mergeConfig(UserConfig(name))
    /\ appRet' = [op |-> "new", userConfig |-> name, outcome |-> Ok]
    /\ UNCHANGED starting
    /\ UNCHANGED notApp
    /\ CallMade

\* An initialize that leaves the flag as it was
InitializeKeepsFlag ==
    /\ appRet' = [op |-> "initialize", before |-> isInitialized, outcome |-> Ok]
    /\ UNCHANGED <<taskService, userService, isInitialized, config, starting>>
    /\ UNCHANGED notApp
    /\ CallMade

\* public async initialize(): the try block holds comments only, then
\*   this.isInitialized = true; console.log(...)
Initialize ==
    /\ isInitialized' = TRUE
    /\ appRet' = [op |-> "initialize", before |-> isInitialized, outcome |-> Ok]
    /\ UNCHANGED <<taskService, userService, config, starting>>
    /\ UNCHANGED notApp
    /\ CallMade

\* public getTaskService(): throw new Error('TODO: Implement TaskService access ...')
GetTaskService ==
    /\ appRet' = [op |-> "getTaskService", outcome |-> TodoError]
    /\ UNCHANGED <<taskService, userService, isInitialized, config, starting>>
    /\ UNCHANGED notApp
    /\ CallMade

\* public getUserService(): throw new Error('TODO: Implement UserService access ...')
GetUserService ==
    /\ appRet' = [op |-> "getUserService", outcome |-> TodoError]
    /\ UNCHANGED <<taskService, userService, isInitialized, config, starting>>
    /\ UNCHANGED notApp
    /\ CallMade

\* public getConfig(): return Object.freeze({ ...this.config });
GetConfig ==
    /\ appRet' = [op |-> "getConfig", outcome |-> Ok, value |-> config]
    /\ UNCHANGED <<taskService, userService, isInitialized, config, starting>>
    /\ UNCHANGED notApp
    /\ CallMade

\* public async updateConfig(updates): throw new Error('TODO: Implement configuration updates')
UpdateConfig(name) ==
    /\ appRet' = [op |-> "updateConfig", updates |-> name, outcome |-> TodoError]
    /\ UNCHANGED <<taskService, userService, isInitialized, config, starting>>
    /\ UNCHANGED notApp
    /\ CallMade

\* public async shutdown(): console.log(...); this.isInitialized = false; console.log(...)
Shutdown ==
    /\ isInitialized' = FALSE
    /\ appRet' = [op |-> "shutdown", before |-> isInitialized, outcome |-> Ok]
    /\ UNCHANGED <<taskService, userService, config, starting>>
    /\ UNCHANGED notApp
    /\ CallMade

\* public async getHealthStatus(): throw new Error('TODO: Implement health status check')
GetHealthStatus ==
    /\ appRet' = [op |-> "getHealthStatus", outcome |-> TodoError]
    /\ UNCHANGED <<taskService, userService, isInitialized, config, starting>>
    /\ UNCHANGED notApp
    /\ CallMade

\* export async function quickStart(config):
\*   const app = createTaskFlowApp(config); await app.initialize(); return app;
\* The call constructs the application and runs initialize, which has no
\* await of its own, and stops at the await: the caller has a promise, and
\* other code runs before quickStart goes on.
MaxStarting == 2      \* quickStart calls that have not returned yet
Pending == "pending"
QuickStart(name) ==
    /\ Len(starting) < MaxStarting
    /\ starting' = Append(starting,
                          [userConfig    |-> name,
                           taskService   |-> Null,
                           userService   |-> Null,
                           config        |-> mergeConfig(UserConfig(name)),
                           isInitialized |-> TRUE])
    /\ appRet' = [op |-> "quickStart", userConfig |-> name, outcome |-> Pending]
    /\ UNCHANGED <<taskService, userService, isInitialized, config>>
    /\ UNCHANGED notApp
    /\ CallMade

\* quickStart goes on after its await: return app.  The promises resolve in
\* the order of the calls; the caller now holds the new application.
QuickStartReturn ==
    /\ starting # << >>
    /\ LET app == Head(starting)
       IN  /\ taskService' = app.taskService
           /\ userService' = app.userService
           /\ config' = app.config
           /\ isInitialized' = app.isInitialized
           /\ appRet' = [op |-> "quickStart", userConfig |-> app.userConfig,
                         outcome |-> Ok]
    /\ starting' = Tail(starting)
    /\ UNCHANGED notApp
    /\ CallMade

\* The state after new TaskFlowApp()
AppInit ==
    /\ taskService = Null
    /\ userService = Null
    /\ isInitialized = FALSE
    /\ config = mergeConfig(UserConfig("none"))
    /\ appRet = [op |-> "new", userConfig |-> "none", outcome |-> Ok]
    /\ starting = << >>

AppNext ==
    \/ \E n \in ConfigNames : NewApp(n)
    \/ Initialize
    \/ GetTaskService
    \/ GetUserService
    \/ GetConfig
    \/ \E n \in ConfigNames : UpdateConfig(n)
    \/ Shutdown
    \/ GetHealthStatus
    \/ \E n \in ConfigNames : QuickStart(n)
    \/ QuickStartReturn

----------------------------------------------------------------------------
\* StorageManager (StorageManager.ts): the constructor and createProvider.

\* StorageConfig: the provider and one of the optional settings
Providers == {"memory", "localStorage", "sessionStorage", "indexedDB"}
StorageConfigs == [provider : Providers, compression : BOOLEAN]

\* A createProvider that knows the memory provider
createProviderForMemory(cfg) ==
    IF cfg.provider = "memory"
    THEN [outcome |-> Ok, provider |-> "MemoryStorageProvider"]
    ELSE [outcome |-> TodoError]

\* private createProvider(config): throw new Error('TODO: Implement provider factory')
createProvider(cfg) == [outcome |-> TodoError]

\* constructor(config): this.config = config;
\*                      this.provider = this.createProvider(config);
\* An exception of createProvider leaves the constructor: no instance results.
NewStorageManager(cfg) ==
    /\ LET made == createProvider(cfg)
       IN  IF made.outcome = Ok
           THEN /\ managers' = managers \cup {[config |-> cfg, provider |-> made.provider]}
                /\ smRet' = [op |-> "new", config |-> cfg, outcome |-> Ok]
           ELSE /\ managers' = managers
                /\ smRet' = [op |-> "new", config |-> cfg, outcome |-> made.outcome]
    /\ UNCHANGED notSm
    /\ CallMade

SmInit ==
    /\ managers = {}
    /\ smRet = [op |-> "none"]

SmNext == \E cfg \in StorageConfigs : NewStorageManager(cfg)

----------------------------------------------------------------------------
\* The state after construction of each object
ObjectsInit ==
    /\ RepoInit /\ OutlineRepoInit /\ StorInit /\ BusInit /\ OutlineBusInit
    /\ AppInit /\ SmInit

\* Runs of any length
Init == ObjectsInit /\ budget = Unbounded

\* The application and the storage manager
AppSmNext == AppNext \/ SmNext
SpecApp == Init /\ [][AppSmNext]_vars

\* Runs of MaxCalls steps of the placeholder objects, the application and the
\* storage manager together: every public method of each, with every argument
PlaceholderInit == ObjectsInit /\ budget = [bounded |-> TRUE, left |-> MaxCalls]
PlaceholderNext == RepoNext \/ StorNext \/ BusNext \/ AppNext \/ SmNext
SpecPlaceholders == PlaceholderInit /\ [][PlaceholderNext]_vars

\* The placeholder repository alone
SpecRepository == Init /\ [][RepoNext]_vars

\* The outline's repository alone
SpecOutlineRepository == Init /\ [][OutlineRepoNext]_vars

\* The placeholder storage provider alone
SpecStorage == Init /\ [][StorNext]_vars

\* The placeholder event bus alone
SpecEventBus == Init /\ [][BusNext]_vars

\* The outline's event bus alone
SpecOutlineBus == Init /\ [][OutlineBusNext]_vars

----------------------------------------------------------------------------
\* Properties of the repository

\* C1 (uniqueness): no two live entities share an id, and create never stores an
\* entity under an id that a live entity already has.  The outline's add is the
\* creation path that stores: each stored entity sits under its own id, and a
\* successful add must not land on an id that is already taken.
C1_CreateNeverTakesLiveId ==
    [][ /\ \A k \in DOMAIN outlineItems' : outlineItems'[k].id = k
        /\ (outlineRet'.op = "add" /\ outlineRet'.outcome = Ok)
              => outlineRet'.id \notin DOMAIN outlineItems ]_vars

\* C2 (atomic update): update(id, patch) of a live entity whose merged candidate
\* fails validation raises ValidationError and writes nothing.
C2_FailedUpdateIsValidationError ==
    [][ (/\ repoRet'.op = "update"
         /\ repoRet'.id \in DOMAIN expectItems
         /\ ~validate(repoRet'.title))
            => (repoRet'.outcome = ValidationError /\ items' = items) ]_vars

\* C3 (atomic create): when validate returns false for the candidate, create
\* fails with ValidationError and the store is as it was before the call.
C3_InvalidCreateIsValidationError ==
    [][ (repoRet'.op = "create" /\ ~validate(repoRet'.title))
            => (repoRet'.outcome = ValidationError /\ items' = items) ]_vars

CeilDiv(n, k) == (n + k - 1) \div k

\* C6 (pagination): with N live entities and page size k >= 1 every findAll
\* returns a result with totalItems = N and totalPages = ceil(N/k).
C6_FindAllReportsTotals ==
    (repoRet.op = "findAll" /\ repoRet.size >= 1)
        => /\ repoRet.outcome = Ok
           /\ repoRet.value.totalItems = Cardinality(DOMAIN expectItems)
           /\ repoRet.value.totalPages =
                  CeilDiv(Cardinality(DOMAIN expectItems), repoRet.size)

----------------------------------------------------------------------------
\* Properties of the storage provider

\* C4 (TTL): a value stored at time t0 with ttl = T and not deleted or rewritten
\* since is returned by get at every time before t0 + T and is absent (null) at
\* every time from t0 + T on.
C4_TtlVisibility ==
    (/\ storRet.op = "get"
     /\ storRet.key \in DOMAIN expectStorage
     /\ expectStorage[storRet.key].expires # NoExpiry)
        => /\ storRet.outcome = Ok
           /\ storRet.at < expectStorage[storRet.key].expires
                 => storRet.result = expectStorage[storRet.key].value
           /\ storRet.at >= expectStorage[storRet.key].expires
                 => storRet.result = Null

LiveKeysAt(t) == {k \in Keys : LiveAt(k, t)}

\* C5 (expired is absent): no read reports an entry whose expiry has passed as
\* live: get returns null, exists returns false, keys and size leave it out.
C5_ExpiredIsAbsent ==
    /\ (storRet.op = "get" /\ ExpiredAt(storRet.key, storRet.at))
          => (storRet.outcome = Ok /\ storRet.result = Null)
    /\ (storRet.op = "exists" /\ ExpiredAt(storRet.key, storRet.at))
          => (storRet.outcome = Ok /\ storRet.result = FALSE)
    /\ (storRet.op = "keys" /\ \E k \in Keys : ExpiredAt(k, storRet.at))
          => (storRet.outcome = Ok /\ storRet.result = LiveKeysAt(storRet.at))
    /\ (storRet.op = "size" /\ \E k \in Keys : ExpiredAt(k, storRet.at))
          => (storRet.outcome = Ok
              /\ storRet.result = Cardinality(LiveKeysAt(storRet.at)))

----------------------------------------------------------------------------
\* Properties of the event bus

\* C7 (idempotent unsubscribe): invoking a token a second time removes nothing:
\* the registered listeners are the same as after the first invocation, also
\* when the same listener function is registered more than once.
C7_SecondUnsubscribeRemovesNothing ==
    [][ (/\ outlineBusRet'.op = "unsubscribe"
         /\ tokens'[outlineBusRet'.token].calls = tokens[outlineBusRet'.token].calls + 1
         /\ tokens[outlineBusRet'.token].calls >= 1)
            => outlineListeners' = outlineListeners ]_vars

\* The subscriptions under one type, in subscription order
SubscribedTo(type) == SelectSeq(expectListeners, LAMBDA s : s.type = type)
\* The subscriptions an event of the type matches: its own type's and the wildcard's
Matching(type) ==
    SelectSeq(expectListeners, LAMBDA s : s.type = type \/ s.type = Wildcard)
ListenersOf(subs) == [i \in 1..Len(subs) |-> subs[i].listener]
Range(seq) == {seq[i] : i \in 1..Len(seq)}
\* The position of the first listener that throws, 0 when none does
FirstThrowing(ls) ==
    IF \E i \in 1..Len(ls) : Throws(ls[i])
    THEN CHOOSE i \in 1..Len(ls) :
            Throws(ls[i]) /\ \A j \in 1..(i - 1) : ~Throws(ls[j])
    ELSE 0

\* C8 (fan-out isolation): when several listeners are subscribed to the type of
\* an emitted event and one of them throws, emit still invokes every other one.
C8_EmitReachesEveryListener ==
    (/\ busRet.op = "emit"
     /\ Len(SubscribedTo(busRet.type)) >= 2
     /\ FirstThrowing(ListenersOf(SubscribedTo(busRet.type))) > 0)
        => Range(ListenersOf(SubscribedTo(busRet.type))) \subseteq Range(invoked)

\* No wildcard subscription: the listeners an event matches are those of its type.
OnlyOwnType(type) == Matching(type) = SubscribedTo(type)

\* C9 (emitSync order): emitSync invokes the listeners matching the event one
\* after the other in the order in which they were subscribed.
C9_EmitSyncInSubscriptionOrder ==
    (/\ busRet.op = "emitSync"
     /\ OnlyOwnType(busRet.type)
     /\ FirstThrowing(ListenersOf(SubscribedTo(busRet.type))) = 0)
        => invoked = ListenersOf(SubscribedTo(busRet.type))

\* C10 (emitSync aborts): when a listener fails during emitSync, no listener
\* subscribed after it is invoked and its failure is raised to the caller.
C10_EmitSyncStopsAtFailure ==
    (/\ busRet.op = "emitSync"
     /\ OnlyOwnType(busRet.type)
     /\ FirstThrowing(ListenersOf(SubscribedTo(busRet.type))) > 0)
        => /\ invoked = SubSeq(ListenersOf(SubscribedTo(busRet.type)), 1,
                               FirstThrowing(ListenersOf(SubscribedTo(busRet.type))))
           /\ busRet.outcome = ListenerError

\* The number of times a listener occurs in a sequence of listeners
Occurrences(ls, l) == Cardinality({i \in 1..Len(ls) : ls[i] = l})

\* The last n elements of a sequence
LastN(seq, n) ==
    SubSeq(seq, IF Len(seq) > n THEN Len(seq) - n + 1 ELSE 1, Len(seq))

\* The listeners matching one of the events of a batch, in delivery order
BatchListeners(events) ==
    ListenersOf(Matching(events[1])) \o ListenersOf(Matching(events[2]))

\* C11 (no propagation): a listener failure during emit or emitBatch is not
\* propagated to the emitter: the call completes normally, and emitBatch still
\* records every event of the batch in history and delivers it to its listeners.
C11_ListenerFailureNotPropagated ==
    /\ (/\ busRet.op = "emit"
        /\ FirstThrowing(ListenersOf(Matching(busRet.type))) > 0)
          => busRet.outcome = Ok
    /\ (/\ busRet.op = "emitBatch"
        /\ FirstThrowing(BatchListeners(busRet.events)) > 0)
          => /\ busRet.outcome = Ok
             /\ LastN(eventHistory, Len(busRet.events)) = busRet.events
             /\ \A l \in Listeners :
                   Occurrences(invoked, l) = Occurrences(BatchListeners(busRet.events), l)

\* C12 (history first): emit and emitSync append the event to history before any
\* listener is invoked, so after the call the event is the newest entry of the
\* history, also when emitSync aborted on a failing listener and when no
\* listener is subscribed.
C12_EmittedEventIsInHistory ==
    (busRet.op \in {"emit", "emitSync"})
        => /\ Len(eventHistory) >= 1
           /\ eventHistory[Len(eventHistory)] = busRet.type

\* C13 (bounded history): the history holds at most maxHistorySize events and
\* equals the most recent maxHistorySize events emitted since the last
\* clearHistory, in emission order.
C13_HistoryIsRecentEvents ==
    /\ Len(eventHistory) <= maxHistorySize
    /\ eventHistory = LastN(expectHistory, maxHistorySize)

\* C14 (delivery): one emit of an event of type t invokes each listener
\* subscribed to t exactly once and no listener subscribed only to another
\* type; afterwards the history of type t contains the event.
C14_EmitInvokesSubscribersOnce ==
    (/\ busRet.op = "emit"
     /\ OnlyOwnType(busRet.type)
     /\ Len(SubscribedTo(busRet.type)) >= 1
     /\ FirstThrowing(ListenersOf(SubscribedTo(busRet.type))) = 0)
        => /\ \A l \in Listeners :
                 Occurrences(invoked, l) = Occurrences(ListenersOf(SubscribedTo(busRet.type)), l)
           /\ busRet.type \in Range(eventHistory)

\* C15 (wildcard): a listener subscribed under "*" is invoked once for every
\* emitted event whatever its type, next to the listeners of the event's type.
C15_WildcardReceivesEveryEvent ==
    (/\ busRet.op = "emit"
     /\ Len(SubscribedTo(Wildcard)) >= 1
     /\ FirstThrowing(ListenersOf(Matching(busRet.type))) = 0)
        => \A l \in Listeners :
              Occurrences(invoked, l) = Occurrences(ListenersOf(Matching(busRet.type)), l)

\* C16 (no listener leak): a waitForEvent call that ends without a matching
\* event fails with TimeoutError and leaves the registered listeners as they
\* were before the call.
C16_WaitFailsWithTimeoutError ==
    [][ (busRet'.op = "waitForEvent" /\ busRet'.outcome # Ok)
            => (busRet'.outcome = TimeoutError /\ listeners' = listeners) ]_vars

\* C17 (settles once): a waitForEvent call that is not resolved by a matching
\* event is rejected at the timeout, not before.
C17_WaitRejectsAtTimeout ==
    (busRet.op = "waitForEvent" /\ busRet.outcome # Ok)
        => busRet.elapsed >= busRet.timeout

\* The registrations that are live under the contract of on(): those whose
\* token has not been invoked, in registration order.
ExpectedCallbacks(event) ==
    LET live == SelectSeq(tokens, LAMBDA t : t.event = event /\ t.calls = 0)
    IN  [i \in 1..Len(live) |-> live[i].callback]

\* C18 (unsubscribe frame): invoking the token returned for a registration
\* removes that one registration and leaves every other registration as it
\* was, so later emissions reach the other registrations in their order.
C18_TokenRemovesOwnRegistration ==
    (\A i \in 1..Len(tokens) : tokens[i].calls <= 1)
        => \A e \in EventTypes : CallbacksOf(e) = ExpectedCallbacks(e)

\* C19 (update of a missing id): update on an id that no live entity has fails
\* with NotFoundError naming that id and leaves the store unchanged.
C19_UpdateMissingIsNotFound ==
    [][ (repoRet'.op = "update" /\ repoRet'.id \notin DOMAIN expectItems)
            => /\ repoRet'.outcome = NotFoundError
               /\ repoRet'.missing = repoRet'.id
               /\ items' = items ]_vars

\* C20 (delete): delete(id) returns true and removes the entity when a live
\* entity has that id, returns false and changes nothing otherwise, and never
\* raises an error.
C20_DeleteReturnsWhetherRemoved ==
    [][ (repoRet'.op = "delete")
            => /\ repoRet'.outcome = Ok
               /\ repoRet'.result = (repoRet'.id \in DOMAIN expectItems)
               /\ DOMAIN items' = DOMAIN items \ {repoRet'.id} ]_vars

----------------------------------------------------------------------------
\* Properties of the repository (continued)

\* C21 (immutable id and createdAt): findById of a live entity shows the id and
\* createdAt it was created with, whatever updates were made in between, and a
\* successful update sets updatedAt to the time of the update.
C21_IdAndCreatedAtImmutable ==
    /\ (repoRet.op = "findById" /\ repoRet.id \in DOMAIN expectItems)
          => /\ repoRet.outcome = Ok
             /\ repoRet.value.id = repoRet.id
             /\ repoRet.value.createdAt = expectItems[repoRet.id].createdAt
    /\ (/\ repoRet.op = "update"
        /\ repoRet.id \in DOMAIN expectItems
        /\ validate(repoRet.title))
          => /\ repoRet.outcome = Ok
             /\ repoRet.value.id = repoRet.id
             /\ repoRet.value.createdAt = expectItems[repoRet.id].createdAt
             /\ repoRet.value.updatedAt = repoNow

\* C22 (create): a successful create returns an entity with a generated id and
\* createdAt = updatedAt, stores it, and raises the number of entities by one.
C22_CreateStoresOneEntity ==
    [][ (/\ repoRet'.op = "create"
         /\ validate(repoRet'.title)
         /\ DOMAIN expectItems # Ids)
            => /\ repoRet'.outcome = Ok
               /\ repoRet'.value.createdAt = repoRet'.value.updatedAt
               /\ repoRet'.value.id \in DOMAIN items' \ DOMAIN items
               /\ Cardinality(DOMAIN items') = Cardinality(DOMAIN items) + 1
               /\ items'[repoRet'.value.id] = repoRet'.value ]_vars

\* C23 (page flags): in every findAll result currentPage is the requested page,
\* hasNextPage is true exactly when currentPage < totalPages and
\* hasPreviousPage is true exactly when currentPage > 1.
C23_FindAllPageFlags ==
    (repoRet.op = "findAll" /\ repoRet.sortBy \in EntityFields)
        => /\ repoRet.outcome = Ok
           /\ repoRet.value.currentPage = repoRet.page
           /\ repoRet.value.hasNextPage =
                 (repoRet.value.currentPage < repoRet.value.totalPages)
           /\ repoRet.value.hasPreviousPage = (repoRet.value.currentPage > 1)

\* C24 (page out of range): findAll with a page number greater than totalPages
\* returns an empty items list with the totals of the store, and does not fail.
C24_PageBeyondRangeIsEmpty ==
    (/\ repoRet.op = "findAll"
     /\ repoRet.sortBy \in EntityFields
     /\ repoRet.page > CeilDiv(Cardinality(DOMAIN expectItems), repoRet.size))
        => /\ repoRet.outcome = Ok
           /\ repoRet.value.items = << >>
           /\ repoRet.value.totalItems = Cardinality(DOMAIN expectItems)
           /\ repoRet.value.totalPages =
                 CeilDiv(Cardinality(DOMAIN expectItems), repoRet.size)

\* C26 (defensive copies): changing an entity that add or findById returned
\* changes nothing in the store.
C26_ReturnedEntityIsCopy ==
    [][ (outlineRet'.op = "mutate") => outlineItems' = outlineItems ]_vars

\* C27 (sanitize, then validate): create, and update of a live entity, call
\* sanitize first and validate next, on the sanitized candidate.
C27_SanitizeBeforeValidate ==
    (\/ repoRet.op = "create"
     \/ (repoRet.op = "update" /\ repoRet.id \in DOMAIN expectItems))
        => /\ Len(repoRet.hooks) >= 2
           /\ repoRet.hooks[1] = "sanitize"
           /\ repoRet.hooks[2] = "validate"

\* C30 (unknown sort key): findAll with a sortBy that names no field of the
\* entities fails with ValidationError naming that field.
C30_UnknownSortKeyIsValidationError ==
    (repoRet.op = "findAll" /\ repoRet.sortBy \notin EntityFields)
        => /\ repoRet.outcome = ValidationError
           /\ repoRet.field = repoRet.sortBy

----------------------------------------------------------------------------
\* Properties of the event bus (continued)

\* C28 (unsubscribeAll): unsubscribeAll(t) returns the number of listeners
\* registered under t immediately before the call and leaves none under t.
C28_UnsubscribeAllReturnsCount ==
    [][ (busRet'.op = "unsubscribeAll")
            => /\ busRet'.outcome = Ok
               /\ busRet'.result = Len(SubscribedTo(busRet'.type))
               /\ busRet'.type \notin DOMAIN listeners' ]_vars

\* The retained events of a type (all of them for AllTypes), in emission order
HistoryOf(type) ==
    SelectSeq(expectHistory, LAMBDA e : type = AllTypes \/ e = type)

\* C29 (getEventHistory): getEventHistory(t, n) returns, in emission order, the
\* n most recent retained events of type t: all retained events when t is
\* omitted, all matches when n is omitted.
C29_GetEventHistoryReturnsRecent ==
    (busRet.op = "getEventHistory")
        => /\ busRet.outcome = Ok
           /\ busRet.result =
                 IF busRet.limit = NoLimit
                 THEN HistoryOf(busRet.type)
                 ELSE LastN(HistoryOf(busRet.type), busRet.limit)

----------------------------------------------------------------------------
\* Properties of sorting and of delivery

\* The items are ordered by the field, ascending or descending
SortedBy(list, field, order) ==
    \A i \in 1..Len(list) : \A j \in (i + 1)..Len(list) :
        IF order = "asc" THEN list[i][field] <= list[j][field]
        ELSE list[i][field] >= list[j][field]

\* C31 (sorting): findAll sorted by a named field returns the live entities
\* ordered by that field, ascending or descending as requested.
C31_FindAllSortsByField ==
    (/\ repoRet.op = "findAll"
     /\ repoRet.sortBy \in EntityFields
     /\ Cardinality(DOMAIN expectItems) >= 2)
        => /\ repoRet.outcome = Ok
           /\ SortedBy(repoRet.value.items, repoRet.sortBy, repoRet.sortOrder)

\* C35 (unsubscribe during delivery): when a listener invokes an unsubscribe
\* token during an emission, every listener that was registered when the
\* emission started and is still registered after it has been invoked by it,
\* and none more often than it was registered.
C35_DeliveryCompleteDespiteUnsubscribe ==
    [][ (outlineBusRet'.op = "emit")
            => LET event == outlineBusRet'.event
                   before == CallbacksOf(event)
                   after == IF event \in DOMAIN outlineListeners'
                            THEN outlineListeners'[event] ELSE << >>
               IN  \A l \in Listeners :
                      /\ Occurrences(outlineInvoked', l) >= Occurrences(after, l)
                      /\ Occurrences(outlineInvoked', l) <= Occurrences(before, l) ]_vars

----------------------------------------------------------------------------
\* Properties of the application and the storage manager

\* C36 (placeholders), as stated: every method of the repositories, the event
\* bus, the storage providers and the application class fails with a TODO
\* error and changes no state.
C36_EverythingIsPlaceholder ==
    /\ items = << >> /\ storage = << >> /\ timers = << >>
    /\ listeners = << >> /\ eventHistory = << >>
    /\ repoRet.op # "new" => repoRet.outcome = TodoError
    /\ storRet.op # "new" => storRet.outcome = TodoError
    /\ busRet.op # "new" => busRet.outcome = TodoError
    /\ appRet.op # "new" => appRet.outcome = TodoError
    /\ isInitialized = FALSE

\* C36, amended: every method of the repository, the storage provider and the
\* event bus fails with a TODO error and changes no state, but for the
\* repository's getCurrentTimestamp, which returns the time of the clock and
\* changes no state either.  The application's getTaskService, getUserService,
\* updateConfig and getHealthStatus fail with a TODO error too and leave both
\* services null; its constructor, getConfig, initialize and shutdown are
\* implemented: they complete, getConfig returns the configuration, initialize
\* and shutdown set isInitialized.
C36_PlaceholdersExceptLifecycle ==
    /\ items = << >> /\ storage = << >> /\ timers = << >>
    /\ listeners = << >> /\ eventHistory = << >>
    /\ repoRet.op \notin {"new", "getCurrentTimestamp"} => repoRet.outcome = TodoError
    /\ repoRet.op = "getCurrentTimestamp" =>
          (repoRet.outcome = Ok /\ repoRet.value \in 0..repoNow)
    /\ storRet.op # "new" => storRet.outcome = TodoError
    /\ busRet.op # "new" => busRet.outcome = TodoError
    /\ appRet.op \in {"getTaskService", "getUserService", "updateConfig",
                      "getHealthStatus"} => appRet.outcome = TodoError
    /\ taskService = Null /\ userService = Null
    /\ appRet.op = "initialize" => (appRet.outcome = Ok /\ isInitialized)
    /\ appRet.op = "shutdown" => (appRet.outcome = Ok /\ ~isInitialized)
    /\ appRet.op = "new" => (appRet.outcome = Ok /\ ~isInitialized)
    /\ appRet.op = "getConfig" => (appRet.outcome = Ok /\ appRet.value = config)

\* C36: a valid create has been called on the repository and the application
\* has been initialized.
C36_CallsMade ==
    /\ repoRet.op = "create" /\ validate(repoRet.title)
    /\ appRet.op = "initialize" /\ isInitialized

\* C37 (service access): getTaskService and getUserService return the service
\* whenever the application is initialized.
C37_ServicesWhenInitialized ==
    (appRet.op \in {"getTaskService", "getUserService"} /\ isInitialized)
        => appRet.outcome = Ok

\* C38 (deep merge): after construction every key of every section of the
\* configuration is defined: a section the user supplied in part keeps the
\* defaults of the keys not supplied.
C38_EverySectionKeyDefined ==
    \A sec \in Sections : DOMAIN config[sec] = DOMAIN defaultConfig[sec]

\* C39 (lifecycle flag): isInitialized is false in a new application, true
\* after each initialize and in the application quickStart returns, false
\* after each shutdown, repeated calls included, and no other call changes it.
C39_IsInitializedFollowsLifecycle ==
    [][ isInitialized' =
          IF appRet'.op = "initialize" THEN TRUE
          ELSE IF appRet'.op = "quickStart" /\ appRet'.outcome = Ok /\ starting' # starting
               THEN TRUE
          ELSE IF appRet'.op \in {"shutdown", "new"} THEN FALSE
          ELSE isInitialized ]_vars

\* C39: initialize has been called on an application that was initialized,
\* while a quickStart call has not returned yet.
C39_InitializedTwice ==
    /\ appRet.op = "initialize" /\ appRet.before = TRUE /\ isInitialized
    /\ starting # << >>

\* C40 (StorageManager): constructing a StorageManager fails for every
\* StorageConfig, so no instance is ever obtained.
C40_NoStorageManager ==
    /\ managers = {}
    /\ smRet.op = "new" => smRet.outcome = TodoError

\* C40: the constructor has been called with the memory provider.
C40_MemoryManagerRequested ==
    smRet.op = "new" /\ smRet.config.provider = "memory"

====
